---- MODULE Spec2Model ----
(***************************************************************************)
(* A state-machine model of the VGGNet notebook (src/VGGNet.ipynb): the    *)
(* cells executed top to bottom (preprocessing, augmentation, model        *)
(* definition, training, saving, reloading, export), and the pure function *)
(* normalize applied to bounded pixel arrays.                              *)
(*                                                                         *)
(* Real numbers are exact rationals <<num, den>> in lowest terms with      *)
(* den > 0, so that equality of values is equality of pairs.               *)
(***************************************************************************)
EXTENDS Integers, Sequences, FiniteSets, TLC

\* ------------------------------------------------------------ rationals

RECURSIVE GCD(_, _)
GCD(a, b) == IF b = 0 THEN a ELSE GCD(b, a % b)

Abs(a) == IF a < 0 THEN -a ELSE a

\* n/d in lowest terms, denominator positive (d # 0).
Rat(n, d) ==
    LET g == GCD(Abs(n), Abs(d))
        s == IF d < 0 THEN -1 ELSE 1
    IN  <<(s * n) \div g, (s * d) \div g>>

RInt(n) == <<n, 1>>

\* Sum over the least common denominator.
RAdd(a, b) ==
    LET g == GCD(a[2], b[2])
    IN  Rat(a[1] * (b[2] \div g) + b[1] * (a[2] \div g), (a[2] \div g) * b[2])

RNeg(a) == <<-a[1], a[2]>>

RSub(a, b) == RAdd(a, RNeg(b))

\* Product, cancelling across the factors before multiplying.
RMul(a, b) ==
    LET g1 == GCD(Abs(a[1]), b[2])
        g2 == GCD(Abs(b[1]), a[2])
    IN  <<(a[1] \div g1) * (b[1] \div g2), (a[2] \div g2) * (b[2] \div g1)>>

\* Reciprocal (a # 0).
RInv(a) == IF a[1] < 0 THEN <<-a[2], -a[1]>> ELSE <<a[2], a[1]>>

RDiv(a, b) == RMul(a, RInv(b))

RECURSIVE RPow(_, _)
RPow(a, k) == IF k = 0 THEN RInt(1) ELSE RMul(a, RPow(a, k - 1))

\* Floor of a rational (\div rounds towards minus infinity in TLA+).
RFloor(a) == a[1] \div a[2]

\* a < b, by comparing the continued-fraction expansions: no cross product.
RECURSIVE RLess(_, _)
RLess(a, b) ==
    LET fa == RFloor(a)
        fb == RFloor(b)
        ra == RSub(a, RInt(fa))
        rb == RSub(b, RInt(fb))
    IN  IF fa # fb THEN fa < fb
        ELSE IF rb[1] = 0 THEN FALSE
        ELSE IF ra[1] = 0 THEN TRUE
        ELSE RLess(RInv(rb), RInv(ra))

\* --------------------------------------------------- hyperparameter cell

learning_rate == <<1, 10>>
lr_decay == <<1, 10 ^ 6>>
weight_decay == <<5, 10 ^ 4>>
lr_drop == 20
batch_size == 128
epochs == 250
\* len(x_train) of the loaded CIFAR-10 training split.
train_size == 50000
\* classes = 10
num_classes == 10

\* A schedule that drops one epoch early.
lr_scheduler_early(epoch) ==
    RMul(learning_rate, RPow(<<1, 2>>, (epoch + 1) \div lr_drop))

\* lr_scheduler(epoch): learning_rate * (0.5 ** (epoch // lr_drop)).
lr_scheduler(epoch) ==
    RMul(learning_rate, RPow(<<1, 2>>, epoch \div lr_drop))

\* A step count that rounds the last partial batch up.
steps_per_epoch_ceil == (train_size + batch_size - 1) \div batch_size

\* steps_per_epoch=len(x_train) // batch_size
steps_per_epoch == train_size \div batch_size

\* An optimizer built without decay.
sgd_rate_nodecay(lr, iterations) == lr

\* The rate SGD applies at an update: lr * (1 / (1 + decay * iterations)),
\* the optimizer having been built with decay=lr_decay.
sgd_rate(lr, iterations) ==
    RMul(lr, RInv(RAdd(RInt(1), RMul(lr_decay, RInt(iterations)))))

\* ------------------------------------------------------ model definition

input_shape == <<32, 32, 3>>

NoRate == <<0, 1>>

\* A layer built without kernel_regularizer.
NoL2 == <<0, 1>>

\* kernel_regularizer=regularizers.l2(weight_decay)
L2 == weight_decay

\* A convolution left at the default padding.
Conv2D_valid(filters, l2, name) ==
    [kind |-> "conv", units |-> filters, kernel |-> 3, act |-> "relu",
     padding |-> "valid", l2 |-> l2, rate |-> NoRate, name |-> name]

\* Conv2D(filters, (3,3), activation='relu', padding='same'), with or
\* without kernel_regularizer=regularizers.l2(weight_decay).
Conv2D(filters, l2, name) ==
    [kind |-> "conv", units |-> filters, kernel |-> 3, act |-> "relu",
     padding |-> "same", l2 |-> l2, rate |-> NoRate, name |-> name]

BatchNormalization ==
    [kind |-> "bn", units |-> 0, kernel |-> 0, act |-> "none",
     padding |-> "none", l2 |-> NoL2, rate |-> NoRate, name |-> ""]

Dropout(rate) ==
    [kind |-> "dropout", units |-> 0, kernel |-> 0, act |-> "none",
     padding |-> "none", l2 |-> NoL2, rate |-> rate, name |-> ""]

\* MaxPooling2D((2,2)): window 2, stride 2, no padding.
MaxPooling2D(name) ==
    [kind |-> "pool", units |-> 0, kernel |-> 2, act |-> "none",
     padding |-> "valid", l2 |-> NoL2, rate |-> NoRate, name |-> name]

Flatten(name) ==
    [kind |-> "flatten", units |-> 0, kernel |-> 0, act |-> "none",
     padding |-> "none", l2 |-> NoL2, rate |-> NoRate, name |-> name]

Dense(units, act, l2, name) ==
    [kind |-> "dense", units |-> units, kernel |-> 0, act |-> act,
     padding |-> "none", l2 |-> l2, rate |-> NoRate, name |-> name]

Block1 ==
    << Conv2D(64, L2, "block1_conv1"), BatchNormalization, Dropout(<<3, 10>>),
       Conv2D(64, NoL2, "block1_conv2"), BatchNormalization,
       MaxPooling2D("block1_pool") >>

Block2 ==
    << Conv2D(128, L2, "block2_conv1"), BatchNormalization, Dropout(<<2, 5>>),
       Conv2D(128, L2, "block2_conv2"), BatchNormalization,
       MaxPooling2D("block2_pool") >>

Block3 ==
    << Conv2D(256, L2, "block3_conv1"), BatchNormalization, Dropout(<<2, 5>>),
       Conv2D(256, L2, "block3_conv2"), BatchNormalization, Dropout(<<2, 5>>),
       Conv2D(256, L2, "block3_conv3"), BatchNormalization,
       MaxPooling2D("block3_pool") >>

Block4 ==
    << Conv2D(512, L2, "block4_conv1"), BatchNormalization, Dropout(<<2, 5>>),
       Conv2D(512, L2, "block4_conv2"), BatchNormalization, Dropout(<<2, 5>>),
       Conv2D(512, L2, "block4_conv3"), BatchNormalization,
       MaxPooling2D("block4_pool") >>

Block5 ==
    << Conv2D(512, L2, "block5_conv1"), BatchNormalization, Dropout(<<2, 5>>),
       Conv2D(512, L2, "block5_conv2"), BatchNormalization, Dropout(<<2, 5>>),
       Conv2D(512, L2, "block5_conv3"), BatchNormalization,
       MaxPooling2D("block5_pool") >>

\* A head whose last layer keeps the 1000 units of the ImageNet VGG.
ClassifierHead_imagenet(c) ==
    << Dropout(<<1, 2>>), Flatten("flatten"),
       Dense(512, "relu", L2, "fc1"), BatchNormalization, Dropout(<<1, 2>>),
       Dense(1000, "softmax", NoL2, "predictions") >>

\* The classifier head; the last layer is Dense(units=classes).
ClassifierHead(c) ==
    << Dropout(<<1, 2>>), Flatten("flatten"),
       Dense(512, "relu", L2, "fc1"), BatchNormalization, Dropout(<<1, 2>>),
       Dense(c, "softmax", NoL2, "predictions") >>

\* Block 2 with weight decay on its first convolution only, as in block 1.
Block2_like1 ==
    << Conv2D(128, L2, "block2_conv1"), BatchNormalization, Dropout(<<2, 5>>),
       Conv2D(128, NoL2, "block2_conv2"), BatchNormalization,
       MaxPooling2D("block2_pool") >>

LayerList_block2(c) ==
    Block1 \o Block2_like1 \o Block3 \o Block4 \o Block5 \o ClassifierHead(c)

\* Block 3 with each dropout placed before the batch-norm it follows.
Block3_dropfirst ==
    << Conv2D(256, L2, "block3_conv1"), Dropout(<<2, 5>>), BatchNormalization,
       Conv2D(256, L2, "block3_conv2"), Dropout(<<2, 5>>), BatchNormalization,
       Conv2D(256, L2, "block3_conv3"), BatchNormalization,
       MaxPooling2D("block3_pool") >>

LayerList_block3(c) ==
    Block1 \o Block2 \o Block3_dropfirst \o Block4 \o Block5 \o ClassifierHead(c)

\* The layers in the order of the model.add calls, the global classes
\* having the value c.
LayerList(c) == Block1 \o Block2 \o Block3 \o Block4 \o Block5 \o ClassifierHead(c)

\* The output shape of a layer applied to an input of shape s: <<h, w, c>>
\* before flatten, <<n>> after.
OutputShape(layer, s) ==
    CASE layer.kind = "conv" ->
           IF layer.padding = "same" THEN <<s[1], s[2], layer.units>>
           ELSE <<s[1] - layer.kernel + 1, s[2] - layer.kernel + 1, layer.units>>
      [] layer.kind = "pool" -> <<s[1] \div layer.kernel, s[2] \div layer.kernel, s[3]>>
      [] layer.kind = "flatten" -> <<s[1] * s[2] * s[3]>>
      [] layer.kind = "dense" -> <<layer.units>>
      [] OTHER -> s

\* A count that leaves out the bias vectors.
ParamCount_nobias(layer, s) ==
    LET ch == s[Len(s)]
    IN  CASE layer.kind = "conv" ->
               [total |-> layer.kernel * layer.kernel * ch * layer.units,
                non_trainable |-> 0]
          [] layer.kind = "dense" ->
               [total |-> ch * layer.units, non_trainable |-> 0]
          [] layer.kind = "bn" -> [total |-> 4 * ch, non_trainable |-> 2 * ch]
          [] OTHER -> [total |-> 0, non_trainable |-> 0]

\* The parameters of a layer on an input of shape s, as
\* [total, non_trainable].
ParamCount(layer, s) ==
    LET ch == s[Len(s)]
    IN  CASE layer.kind = "conv" ->
               [total |-> layer.kernel * layer.kernel * ch * layer.units + layer.units,
                non_trainable |-> 0]
          [] layer.kind = "dense" ->
               [total |-> ch * layer.units + layer.units, non_trainable |-> 0]
          [] layer.kind = "bn" -> [total |-> 4 * ch, non_trainable |-> 2 * ch]
          [] OTHER -> [total |-> 0, non_trainable |-> 0]

\* The shape after each layer, walking the list from an input of shape s.
RECURSIVE ShapeWalk(_, _)
ShapeWalk(layers, s) ==
    IF layers = <<>> THEN <<>>
    ELSE LET out == OutputShape(Head(layers), s)
         IN  <<out>> \o ShapeWalk(Tail(layers), out)

\* The parameter totals, walking the list from an input of shape s.
RECURSIVE ParamWalk(_, _)
ParamWalk(layers, s) ==
    IF layers = <<>> THEN [total |-> 0, non_trainable |-> 0]
    ELSE LET p == ParamCount(Head(layers), s)
             rest == ParamWalk(Tail(layers), OutputShape(Head(layers), s))
         IN  [total |-> p.total + rest.total,
              non_trainable |-> p.non_trainable + rest.non_trainable]

\* model.summary(): the output shape of every layer, then the totals.
Summary(layers) ==
    LET p == ParamWalk(layers, input_shape)
    IN  [shapes |-> ShapeWalk(layers, input_shape),
         total |-> p.total,
         trainable |-> p.total - p.non_trainable,
         non_trainable |-> p.non_trainable]

\* ------------------------------------------------------------- the state

\* The values a training step may fold into the parameter digest range
\* over 0..MaxDigest.
MaxDigest == 1

VARIABLES
    pc,            \* the notebook statement to execute next
    x_train,       \* the training split (what it holds, not its pixels)
    x_test,        \* the evaluation split
    train_datagen, \* the augmentation generator
    classes,       \* the global name classes
    model,         \* the Sequential model's layer list
    compiled,      \* whether model.compile has run
    opt_lr,        \* the optimizer's lr variable
    iterations,    \* the optimizer's update counter
    summary,       \* what model.summary() printed
    flow,          \* the batch generator handed to fit_generator
    epoch,         \* the epoch of the training loop
    batch,         \* steps done in the current epoch
    params,        \* the in-memory model parameters
    first_rate,    \* the rate applied by the first update of the epoch
    step_rate,     \* the rate applied by the latest update
    last_batch,    \* the batch of the latest update
    val_data,      \* what the latest validation evaluated
    val_runs,      \* the number of validations run
    weights_file,  \* cifar10vgg.h5
    coreml_model,  \* CIFAR10.mlmodel
    X_train,       \* normalize: the training pixels passed in
    X_test,        \* normalize: the evaluation pixels of each of two calls
    normalized     \* normalize: what each call returned

pipeVars ==
    <<pc, x_train, x_test, train_datagen, classes, model, compiled, opt_lr,
      iterations, summary, flow, epoch, batch, params, first_rate, step_rate,
      last_batch, val_data, val_runs, weights_file, coreml_model>>

normVars == <<X_train, X_test, normalized>>

vars == <<pipeVars, normVars>>

NoData == [split |-> "none", dtype |-> "none", normalized |-> FALSE,
           augmented |-> FALSE]

NoGenerator == [rotation_range |-> 0, shift_range |-> <<0, 1>>,
                horizontal_flip |-> FALSE, fitted |-> NoData]

NoFlow == [data |-> NoData, batch_size |-> 0, augment |-> NoGenerator]

NoBatch == [drawn_from |-> NoData, augmented |-> FALSE]

Unbound == [type |-> "unbound", int |-> 0, list |-> <<>>]

NoSummary == [shapes |-> <<>>, total |-> 0, trainable |-> 0, non_trainable |-> 0]

NoParams == [updates |-> 0, digest |-> 0]

NoFile == [written |-> FALSE, params |-> NoParams]

NoArtifact == [written |-> FALSE, params |-> NoParams, layers |-> <<>>,
               class_labels |-> <<>>, input_names |-> <<>>]

\* The label list bound to classes in the export cell.
ClassList ==
    <<"airplane", "automobile", "bird ", "cat ", "deer ", "dog ", "frog ",
      "horse ", "ship ", "truck">>

\* The literal list passed as class_labels.
ClassLabels ==
    <<"airplane", "automobile", "bird ", "cat ", "deer ", "dog ", "frog ",
      "horse ", "ship ", "truck">>

PipeInit ==
    /\ pc = "load_data"
    /\ x_train = NoData
    /\ x_test = NoData
    /\ train_datagen = NoGenerator
    /\ classes = Unbound
    /\ model = <<>>
    /\ compiled = FALSE
    /\ opt_lr = RInt(0)
    /\ iterations = 0
    /\ summary = NoSummary
    /\ flow = NoFlow
    /\ epoch = 0
    /\ batch = 0
    /\ params = NoParams
    /\ first_rate = RInt(0)
    /\ step_rate = RInt(0)
    /\ last_batch = NoBatch
    /\ val_data = NoData
    /\ val_runs = 0
    /\ weights_file = NoFile
    /\ coreml_model = NoArtifact

NormIdle ==
    /\ X_train = <<>>
    /\ X_test = <<<<>>, <<>>>>
    /\ normalized = <<>>

Init == PipeInit /\ NormIdle

\* ------------------------------------------------------ the notebook cells

\* cifar10.load_data() and the two astype('float32').
LoadData ==
    /\ pc = "load_data"
    /\ x_train' = [split |-> "train", dtype |-> "float32", normalized |-> FALSE,
                   augmented |-> FALSE]
    /\ x_test' = [split |-> "test", dtype |-> "float32", normalized |-> FALSE,
                  augmented |-> FALSE]
    /\ pc' = "normalize"
    /\ UNCHANGED <<train_datagen, classes, model, compiled, opt_lr, iterations,
                   summary, flow, epoch, batch, params, first_rate, step_rate,
                   last_batch, val_data, val_runs, weights_file, coreml_model>>
    /\ UNCHANGED normVars

\* x_train, x_test = normalize(x_train, x_test)
Preprocess ==
    /\ pc = "normalize"
    /\ x_train' = [x_train EXCEPT !.normalized = TRUE]
    /\ x_test' = [x_test EXCEPT !.normalized = TRUE]
    /\ pc' = "datagen"
    /\ UNCHANGED <<train_datagen, classes, model, compiled, opt_lr, iterations,
                   summary, flow, epoch, batch, params, first_rate, step_rate,
                   last_batch, val_data, val_runs, weights_file, coreml_model>>
    /\ UNCHANGED normVars

\* train_datagen = ImageDataGenerator(...); train_datagen.fit(x_train)
FitDatagen ==
    /\ pc = "datagen"
    /\ train_datagen' = [rotation_range |-> 15, shift_range |-> <<1, 10>>,
                         horizontal_flip |-> TRUE, fitted |-> x_train]
    /\ pc' = "hyperparameters"
    /\ UNCHANGED <<x_train, x_test, classes, model, compiled, opt_lr, iterations,
                   summary, flow, epoch, batch, params, first_rate, step_rate,
                   last_batch, val_data, val_runs, weights_file, coreml_model>>
    /\ UNCHANGED normVars

\* The hyperparameter cell: of its names only classes is rebound later.
Hyperparameters ==
    /\ pc = "hyperparameters"
    /\ classes' = [type |-> "int", int |-> num_classes, list |-> <<>>]
    /\ pc' = "build"
    /\ UNCHANGED <<x_train, x_test, train_datagen, model, compiled, opt_lr,
                   iterations, summary, flow, epoch, batch, params, first_rate,
                   step_rate, last_batch, val_data, val_runs, weights_file,
                   coreml_model>>
    /\ UNCHANGED normVars

\* One model.add(...) of the model cell, in program order.
ModelAdd ==
    /\ pc = "build"
    /\ LET layers == LayerList(classes.int)
           n == Len(model) + 1
       IN  /\ model' = Append(model, layers[n])
           /\ pc' = IF n = Len(layers) THEN "compile" ELSE "build"
    /\ UNCHANGED <<x_train, x_test, train_datagen, classes, compiled, opt_lr,
                   iterations, summary, flow, epoch, batch, params, first_rate,
                   step_rate, last_batch, val_data, val_runs, weights_file,
                   coreml_model>>
    /\ UNCHANGED normVars

\* sgd = optimizers.SGD(lr=learning_rate, decay=lr_decay, ...); model.compile
Compile ==
    /\ pc = "compile"
    /\ compiled' = TRUE
    /\ opt_lr' = learning_rate
    /\ iterations' = 0
    /\ pc' = "summary"
    /\ UNCHANGED <<x_train, x_test, train_datagen, classes, model, summary, flow,
                   epoch, batch, params, first_rate, step_rate, last_batch,
                   val_data, val_runs, weights_file, coreml_model>>
    /\ UNCHANGED normVars

\* model.summary()
PrintSummary ==
    /\ pc = "summary"
    /\ summary' = Summary(model)
    /\ pc' = "fit"
    /\ UNCHANGED <<x_train, x_test, train_datagen, classes, model, compiled,
                   opt_lr, iterations, flow, epoch, batch, params, first_rate,
                   step_rate, last_batch, val_data, val_runs, weights_file,
                   coreml_model>>
    /\ UNCHANGED normVars

\* train_datagen.flow(x_train, y_train, batch_size=batch_size), and the
\* entry into fit_generator's loop at epoch 0.
FitBegin ==
    /\ pc = "fit"
    /\ flow' = [data |-> x_train, batch_size |-> batch_size,
                augment |-> train_datagen]
    /\ epoch' = 0
    /\ batch' = 0
    /\ pc' = "epoch_begin"
    /\ UNCHANGED <<x_train, x_test, train_datagen, classes, model, compiled,
                   opt_lr, iterations, summary, params, first_rate, step_rate,
                   last_batch, val_data, val_runs, weights_file, coreml_model>>
    /\ UNCHANGED normVars

\* callbacks=[reduce_lr]: at the start of an epoch the scheduler callback
\* sets the optimizer's lr to lr_scheduler(epoch).
EpochBegin ==
    /\ pc = "epoch_begin"
    /\ opt_lr' = lr_scheduler(epoch)
    /\ batch' = 0
    /\ pc' = "batch"
    /\ UNCHANGED <<x_train, x_test, train_datagen, classes, model, compiled,
                   iterations, summary, flow, epoch, params, first_rate,
                   step_rate, last_batch, val_data, val_runs, weights_file,
                   coreml_model>>
    /\ UNCHANGED normVars

\* The next batch of the generator: drawn from the array it was given and
\* passed through the augmentation.
NextBatch(gen) == [drawn_from |-> gen.data, augmented |-> TRUE]

\* Whether the epoch's steps are done after steps_done of them.
EpochFinishedEveryStep(steps_done) == steps_done >= 1

EpochFinished(steps_done) == steps_done >= steps_per_epoch

\* One step of the epoch: a batch from the generator and one SGD update.
TrainBatch ==
    /\ pc = "batch"
    /\ \E noise \in 0..MaxDigest :
          params' = [updates |-> params.updates + 1,
                     digest |-> (params.digest + noise) % (MaxDigest + 1)]
    /\ last_batch' = NextBatch(flow)
    /\ step_rate' = sgd_rate(opt_lr, iterations)
    /\ first_rate' = IF batch = 0 THEN sgd_rate(opt_lr, iterations) ELSE first_rate
    /\ iterations' = iterations + 1
    /\ batch' = batch + 1
    /\ pc' = IF EpochFinished(batch + 1) THEN "validate" ELSE "batch"
    /\ UNCHANGED <<x_train, x_test, train_datagen, classes, model, compiled,
                   opt_lr, summary, flow, epoch, val_data, val_runs,
                   weights_file, coreml_model>>
    /\ UNCHANGED normVars

\* An evaluation run in training mode, which moves the batch-norm statistics.
AfterEvaluate_training(p) == [p EXCEPT !.digest = (@ + 1) % (MaxDigest + 1)]

\* The parameters after an evaluation of the validation data: evaluation
\* computes loss and accuracy only.
AfterEvaluate(p) == p

\* Validation data drawn through the augmentation generator.
ValidationData_flow(gen, xt) == [xt EXCEPT !.augmented = gen.horizontal_flip]

\* validation_data=(x_test, y_test): the array itself is evaluated, the
\* generator gen of the training batches having no part in it.
ValidationData(gen, xt) == xt

\* validation_data=(x_test, y_test): the evaluation that closes an epoch,
\* then the next epoch or the end of fit_generator.
Validate ==
    /\ pc = "validate"
    /\ val_data' = ValidationData(train_datagen, x_test)
    /\ val_runs' = val_runs + 1
    /\ epoch' = epoch + 1
    /\ params' = AfterEvaluate(params)
    /\ pc' = IF epoch + 1 < epochs THEN "epoch_begin" ELSE "save_weights"
    /\ UNCHANGED <<x_train, x_test, train_datagen, classes, model, compiled,
                   opt_lr, iterations, summary, flow, batch, first_rate,
                   step_rate, last_batch, weights_file, coreml_model>>
    /\ UNCHANGED normVars

\* model.save_weights('cifar10vgg.h5')
SaveWeights ==
    /\ pc = "save_weights"
    /\ weights_file' = [written |-> TRUE, params |-> params]
    /\ pc' = "load_weights"
    /\ UNCHANGED <<x_train, x_test, train_datagen, classes, model, compiled,
                   opt_lr, iterations, summary, flow, epoch, batch, params,
                   first_rate, step_rate, last_batch, val_data, val_runs,
                   coreml_model>>
    /\ UNCHANGED normVars

\* What load_weights puts in memory: the values the file holds.
LoadedParams(file) == file.params

\* model.load_weights('cifar10vgg.h5')
LoadWeights ==
    /\ pc = "load_weights"
    /\ weights_file.written
    /\ params' = LoadedParams(weights_file)
    /\ pc' = "export"
    /\ UNCHANGED <<x_train, x_test, train_datagen, classes, model, compiled,
                   opt_lr, iterations, summary, flow, epoch, batch, first_rate,
                   step_rate, last_batch, val_data, val_runs, weights_file,
                   coreml_model>>
    /\ UNCHANGED normVars

\* The export cell: classes is rebound to the label list, the model is
\* converted with the literal class_labels and saved.
Export ==
    /\ pc = "export"
    /\ classes' = [type |-> "list", int |-> 0, list |-> ClassList]
    /\ coreml_model' = [written |-> TRUE, params |-> params, layers |-> model,
                        class_labels |-> ClassLabels, input_names |-> <<"image">>]
    /\ pc' = "done"
    /\ UNCHANGED <<x_train, x_test, train_datagen, model, compiled, opt_lr,
                   iterations, summary, flow, epoch, batch, params, first_rate,
                   step_rate, last_batch, val_data, val_runs, weights_file>>
    /\ UNCHANGED normVars

Next ==
    \/ LoadData
    \/ Preprocess
    \/ FitDatagen
    \/ Hyperparameters
    \/ ModelAdd
    \/ Compile
    \/ PrintSummary
    \/ FitBegin
    \/ EpochBegin
    \/ TrainBatch
    \/ Validate
    \/ SaveWeights
    \/ LoadWeights
    \/ Export

Spec == Init /\ [][Next]_vars

\* ---------------------------------------------------------- normalize

\* Pixel values range over 0..MaxPixel, training arrays hold 1..MaxTrain
\* pixels and evaluation arrays 1..MaxTest.
MaxPixel == 2
MaxTrain == 2
MaxTest == 1

\* An epsilon of 1e-6.
Eps_coarse == <<1, 10 ^ 6>>

\* The ε of normalize, 1e-7.
Eps == <<1, 10 ^ 7>>

\* Square roots are rounded down to a multiple of 1/SqrtScale.
SqrtScale == 10 ^ 3

\* The largest r in lo..hi with r * r <= n.
RECURSIVE ISqrtIn(_, _, _)
ISqrtIn(n, lo, hi) ==
    IF lo >= hi THEN lo
    ELSE LET mid == (lo + hi + 1) \div 2
         IN  IF mid * mid <= n THEN ISqrtIn(n, mid, hi)
             ELSE ISqrtIn(n, lo, mid - 1)

RSqrt(a) ==
    Rat(ISqrtIn((a[1] * SqrtScale * SqrtScale) \div a[2], 0, 46340), SqrtScale)

RECURSIVE RSum(_)
RSum(xs) == IF xs = <<>> THEN RInt(0) ELSE RAdd(Head(xs), RSum(Tail(xs)))

\* np.mean(X, axis=(0,1,2,3)): the mean over every pixel of the array.
Mean(X) == RDiv(RSum(X), RInt(Len(X)))

\* np.std(X, axis=(0,1,2,3)): sqrt(mean(abs(x - x.mean()) ** 2)).
Std(X) ==
    LET m == Mean(X)
        dev == [i \in DOMAIN X |-> RMul(RSub(X[i], m), RSub(X[i], m))]
    IN  RSqrt(Mean(dev))

\* (X - mean) / (std + 1e-7), elementwise.
Standardize(X, mean, std) ==
    [i \in DOMAIN X |-> RDiv(RSub(X[i], mean), RAdd(std, Eps))]

\* A normalize that standardizes each array with its own statistics.
normalize_each(Xtr, Xte) ==
    [mean |-> Mean(Xtr), std |-> Std(Xtr),
     X_train |-> Standardize(Xtr, Mean(Xtr), Std(Xtr)),
     X_test |-> Standardize(Xte, Mean(Xte), Std(Xte))]

\* normalize(X_train, X_test), statement by statement; the record holds
\* the locals at the return.
normalize(Xtr, Xte) ==
    LET mean == Mean(Xtr)
        std == Std(Xtr)
        Xtr1 == Standardize(Xtr, mean, std)
        Xte1 == Standardize(Xte, mean, std)
    IN  [mean |-> mean, std |-> std, X_train |-> Xtr1, X_test |-> Xte1]

\* The float arrays of n pixels.
Arrays(n) == UNION {[1..k -> {RInt(v) : v \in 0..MaxPixel}] : k \in 1..n}

NormInit ==
    /\ PipeInit
    /\ X_train \in Arrays(MaxTrain)
    /\ X_test \in Arrays(MaxTest) \X Arrays(MaxTest)
    /\ normalized = <<>>

\* The next of two calls normalize(X_train, X_test[k]) on the same
\* training array.
CallNormalize ==
    /\ Len(normalized) < 2
    /\ normalized' = Append(normalized,
                            normalize(X_train, X_test[Len(normalized) + 1]))
    /\ UNCHANGED <<X_train, X_test>>
    /\ UNCHANGED pipeVars

NormNext == CallNormalize

SpecNorm == NormInit /\ [][NormNext]_vars

\* ================================================================ claims

\* The training loop is inside an epoch: its rate has been set and its
\* validation has not run yet.
InEpoch == pc \in {"batch", "validate"}

\* C1: for every epoch e in 0..249 the scheduled rate is
\* 0.1 * 0.5^(e // 20): inside epoch e the optimizer's rate is 1/(10 * 2^(e
\* div 20)), with lr(0) = lr(19) = 1/10, lr(20) = 1/20 and lr(40) = 1/40;
\* and the step that starts an epoch halves the rate exactly when the epoch
\* is a positive multiple of 20, leaves it unchanged at every other epoch,
\* and never raises it.
C1_LrSchedule ==
    /\ [](InEpoch =>
            /\ epoch \in 0..249
            /\ opt_lr = <<1, 10 * 2 ^ (epoch \div 20)>>
            /\ (epoch \in {0, 19} => opt_lr = <<1, 10>>)
            /\ (epoch = 20 => opt_lr = <<1, 20>>)
            /\ (epoch = 40 => opt_lr = <<1, 40>>))
    /\ [][pc = "epoch_begin" =>
            /\ (epoch > 0 /\ epoch % 20 = 0 => RMul(RInt(2), opt_lr') = opt_lr)
            /\ (epoch = 0 \/ epoch % 20 # 0 => opt_lr' = opt_lr)
            /\ ~RLess(opt_lr, opt_lr')]_vars

\* The first drop has happened: epoch 20 runs at 0.05.
C1_Witness == pc = "batch" /\ epoch = 20 /\ opt_lr = <<1, 20>>

\* C2 as stated: every update of an epoch applies the rate scheduled for
\* the epoch, so all updates of one epoch apply the same rate.
C2_SameRateWithinEpoch ==
    (InEpoch /\ batch >= 1) =>
        /\ step_rate = <<1, 10 * 2 ^ (epoch \div 20)>>
        /\ step_rate = first_rate

\* C2, amended: inside an epoch the optimizer's base rate is the scheduled
\* rate of the epoch, the same at every step; the rate an update applies is
\* that base rate times 1 / (1 + 1e-6 * n), n the number of updates made
\* before it, so within an epoch it is strictly smaller at every later
\* batch.
C2_RateWithinEpoch ==
    (InEpoch /\ batch >= 1) =>
        LET n == epoch * 390 + batch - 1
        IN  /\ opt_lr = <<1, 10 * 2 ^ (epoch \div 20)>>
            /\ iterations = n + 1
            /\ step_rate = RDiv(opt_lr, Rat(10 ^ 6 + n, 10 ^ 6))
            /\ (batch = 1 => step_rate = first_rate)
            /\ (batch >= 2 => RLess(step_rate, first_rate))

\* Two updates of the second epoch with different rates.
C2_Witness ==
    /\ pc = "batch"
    /\ epoch = 1
    /\ batch = 2
    /\ RLess(step_rate, first_rate)
    /\ RLess(step_rate, opt_lr)

\* C3: the layer-by-layer sum over the declared layers is 15,001,418
\* parameters, 9,472 of them non-trainable and 14,991,946 trainable.
C3_ParamCount ==
    pc \in {"fit", "done"} =>
        /\ summary.total = 15001418
        /\ summary.non_trainable = 9472
        /\ summary.trainable = 14991946

\* The summary of the full 45-layer model has been printed.
C3_Witness == pc = "fit" /\ Len(model) = 45 /\ summary.total > 0

\* The shape that enters layer i of a summary.
ShapeInto(shapes, i) == IF i = 1 THEN input_shape ELSE shapes[i - 1]

\* The indices of the layers of a kind, in order.
IndicesOf(layers, kinds) ==
    LET S == {i \in DOMAIN layers : layers[i].kind \in kinds}
        Ordered[n \in 0..Cardinality(S)] ==
            IF n = 0 THEN <<>>
            ELSE LET rest == Ordered[n - 1]
                     next == CHOOSE i \in S :
                                /\ \A k \in DOMAIN rest : rest[k] < i
                                /\ \A j \in S :
                                      (\A k \in DOMAIN rest : rest[k] < j) => i <= j
                 IN  Append(rest, next)
    IN  Ordered[Cardinality(S)]

\* C4: from a 32x32x3 input every convolution, batch-norm and dropout
\* keeps the spatial size and each of the five poolings halves it, to 16,
\* 8, 4, 2, 1; flatten yields 512 values and the last layer 10 outputs.
C4_Shapes ==
    pc \in {"fit", "done"} =>
        LET sh == summary.shapes
            pools == IndicesOf(model, {"pool"})
            flat == IndicesOf(model, {"flatten"})
        IN  /\ Len(sh) = Len(model)
            /\ \A i \in DOMAIN model :
                  /\ (model[i].kind \in {"conv", "bn", "dropout"} /\ i < flat[1] =>
                        /\ sh[i][1] = ShapeInto(sh, i)[1]
                        /\ sh[i][2] = ShapeInto(sh, i)[2])
                  /\ (model[i].kind = "pool" =>
                        /\ 2 * sh[i][1] = ShapeInto(sh, i)[1]
                        /\ 2 * sh[i][2] = ShapeInto(sh, i)[2])
            /\ Len(pools) = 5
            /\ [k \in 1..5 |-> sh[pools[k]][1]] = <<16, 8, 4, 2, 1>>
            /\ [k \in 1..5 |-> sh[pools[k]][2]] = <<16, 8, 4, 2, 1>>
            /\ Len(flat) = 1
            /\ sh[flat[1]] = <<512>>
            /\ sh[Len(sh)] = <<10>>

\* The summary shows the 1x1x512 map after block 5 and the 10 outputs.
C4_Witness ==
    /\ pc = "fit"
    /\ Len(summary.shapes) = 45
    /\ summary.shapes[39] = <<1, 1, 512>>
    /\ summary.shapes[45] = <<10>>

\* The model cell has run: every layer has been added.
ModelBuilt == pc \in {"compile", "summary", "fit", "done"}

\* Block k of a layer list: the layers after pooling k - 1 up to pooling k.
Block(layers, k) ==
    LET pools == IndicesOf(layers, {"pool"})
    IN  SubSeq(layers, IF k = 1 THEN 1 ELSE pools[k - 1] + 1, pools[k])

Kinds(layers) == [i \in DOMAIN layers |-> layers[i].kind]

\* C5 as stated: blocks 1 and 2 are conv, batch-norm, dropout, conv,
\* batch-norm, pooling, with weight decay 5e-4 on the first convolution
\* only and dropout 0.3 in block 1, 0.4 in block 2.
C5_Block2LikeBlock1 ==
    ModelBuilt =>
        \A b \in {1, 2} :
            LET B == Block(model, b)
            IN  /\ Kinds(B) = <<"conv", "bn", "dropout", "conv", "bn", "pool">>
                /\ B[1].l2 = <<5, 10 ^ 4>>
                /\ B[4].l2 = <<0, 1>>
                /\ B[3].rate = IF b = 1 THEN <<3, 10>> ELSE <<2, 5>>

\* C5, amended: blocks 1 and 2 have the same layer pattern (conv,
\* batch-norm, dropout, conv, batch-norm, pooling; dropout 0.3 in block 1,
\* 0.4 in block 2) and weight decay 5e-4 on the first convolution, but the
\* second convolution carries no weight decay in block 1 only: in block 2
\* it has weight decay 5e-4 too.
C5_Block2Pattern ==
    ModelBuilt =>
        \A b \in {1, 2} :
            LET B == Block(model, b)
            IN  /\ Kinds(B) = <<"conv", "bn", "dropout", "conv", "bn", "pool">>
                /\ B[1].l2 = <<5, 10 ^ 4>>
                /\ B[4].l2 = IF b = 1 THEN <<0, 1>> ELSE <<5, 10 ^ 4>>
                /\ B[3].rate = IF b = 1 THEN <<3, 10>> ELSE <<2, 5>>

\* Block 2 has been added, with weight decay on its second convolution.
C5_Witness ==
    /\ pc = "compile"
    /\ Len(model) = 45
    /\ model[10].name = "block2_conv2"
    /\ model[10].l2 = <<5, 10 ^ 4>>
    /\ model[4].l2 = <<0, 1>>

\* C6: every convolution and the 512-unit dense layer is directly followed
\* by a batch-norm; every dropout inside a block sits directly after a
\* batch-norm and directly before the next convolution; blocks 3, 4 and 5
\* have dropout 0.4 after the first two convolutions and none after the
\* third; no block has a dropout between its last convolution and its
\* pooling; after block 5 come dropout 0.5, flatten, dense 512 (ReLU, L2),
\* batch-norm, dropout 0.5, dense 10 (softmax).
C6_Placement ==
    ModelBuilt =>
        LET pools == IndicesOf(model, {"pool"})
            n == Len(model)
            tail == SubSeq(model, pools[5] + 1, n)
        IN  /\ Len(pools) = 5
            /\ \A i \in DOMAIN model :
                  /\ (model[i].kind = "conv" \/
                      (model[i].kind = "dense" /\ model[i].units = 512) =>
                        i < n /\ model[i + 1].kind = "bn")
                  /\ (model[i].kind = "dropout" /\ i < pools[5] =>
                        /\ i > 1 /\ model[i - 1].kind = "bn"
                        /\ model[i + 1].kind = "conv")
            /\ \A b \in {3, 4, 5} :
                  LET B == Block(model, b)
                  IN  /\ Kinds(B) = <<"conv", "bn", "dropout", "conv", "bn",
                                      "dropout", "conv", "bn", "pool">>
                      /\ B[3].rate = <<2, 5>>
                      /\ B[6].rate = <<2, 5>>
            /\ \A b \in 1..5 :
                  LET B == Block(model, b)
                  IN  /\ B[Len(B) - 1].kind = "bn"
                      /\ B[Len(B) - 2].kind = "conv"
            /\ Kinds(tail) = <<"dropout", "flatten", "dense", "bn", "dropout", "dense">>
            /\ tail[1].rate = <<1, 2>>
            /\ tail[3].units = 512 /\ tail[3].act = "relu" /\ tail[3].l2 = <<5, 10 ^ 4>>
            /\ tail[5].rate = <<1, 2>>
            /\ tail[6].units = 10 /\ tail[6].act = "softmax"

\* All five blocks and the classifier head have been added.
C6_Witness ==
    /\ pc = "compile"
    /\ Len(model) = 45
    /\ model[39].name = "block5_pool"
    /\ model[45].name = "predictions"

\* The statements left to execute before the export is done, counting 392
\* a full epoch (its start, 390 batches, its validation).
StepsLeft ==
    LET tail == 3
        training == 250 * 392
    IN  CASE pc = "load_data" -> 52 + training + tail
          [] pc = "normalize" -> 51 + training + tail
          [] pc = "datagen" -> 50 + training + tail
          [] pc = "hyperparameters" -> 49 + training + tail
          [] pc = "build" -> (45 - Len(model)) + 3 + training + tail
          [] pc = "compile" -> 3 + training + tail
          [] pc = "summary" -> 2 + training + tail
          [] pc = "fit" -> 1 + training + tail
          [] pc = "epoch_begin" -> (250 - epoch) * 392 + tail
          [] pc = "batch" -> (250 - epoch) * 392 - 1 - batch + tail
          [] pc = "validate" -> (250 - epoch) * 392 - 391 + tail
          [] pc = "save_weights" -> 3
          [] pc = "load_weights" -> 2
          [] pc = "export" -> 1
          [] OTHER -> 0

\* C7: training terminates although the generator never ends: every
\* epoch takes exactly 390 batches (50,000 div 128) of 128 drawn from the
\* generator, there are exactly 250 epochs, and the weights are saved after
\* exactly 250 * 390 = 97,500 optimizer steps. Termination: every step
\* lowers the number of statements left by one, and that number is never
\* negative and is zero only when the export is done.
C7_Terminates ==
    /\ [](flow # NoFlow => flow.data.split = "train" /\ flow.batch_size = 128)
    /\ [](InEpoch => epoch < 250 /\ batch <= 390 /\ iterations = epoch * 390 + batch)
    /\ [](pc = "validate" => batch = 390)
    /\ [](weights_file.written => epoch = 250 /\ iterations = 97500)
    /\ [](StepsLeft >= 0 /\ (StepsLeft = 0 <=> pc = "done"))
    /\ [][StepsLeft' = StepsLeft - 1]_vars

\* The weights have been saved after the 97,500th step.
C7_Witness ==
    /\ weights_file.written
    /\ pc = "load_weights"
    /\ epoch = 250
    /\ weights_file.params.updates = 97500

\* C8: within an epoch the rate is set from the epoch number before the
\* first batch, then each of the epoch's batches changes the parameters,
\* then validation runs once, after the last batch; validation never runs
\* mid-epoch and changes neither the parameters nor the rate.
C8_EpochOrder ==
    [][/\ (pc = "epoch_begin" =>
             /\ opt_lr' = <<1, 10 * 2 ^ (epoch \div 20)>>
             /\ batch' = 0
             /\ pc' = "batch"
             /\ val_runs = epoch
             /\ UNCHANGED <<params, iterations, val_runs>>)
       /\ (iterations' # iterations =>
             /\ pc = "batch"
             /\ batch < 390
             /\ batch' = batch + 1
             /\ opt_lr = <<1, 10 * 2 ^ (epoch \div 20)>>
             /\ val_runs = epoch
             /\ params' # params
             /\ UNCHANGED <<opt_lr, val_runs, epoch>>)
       /\ (pc = "batch" => iterations' = iterations + 1)
       /\ (val_runs' # val_runs =>
             /\ pc = "validate"
             /\ batch = 390
             /\ val_runs = epoch
             /\ val_runs' = val_runs + 1
             /\ epoch' = epoch + 1
             /\ val_data' = x_test
             /\ UNCHANGED <<params, opt_lr, iterations>>)
       /\ (pc = "validate" => val_runs' # val_runs)]_vars

\* The second epoch is about to start: the first one has run its 390
\* batches and then its validation.
C8_Witness ==
    /\ pc = "epoch_begin"
    /\ epoch = 1
    /\ batch = 390
    /\ iterations = 390
    /\ val_runs = 1
    /\ val_data.split = "test"

\* C9: normalize takes mean and standard deviation from X_train alone and
\* applies the pair to both arrays: two calls with the same X_train have
\* the same statistics (those of X_train as passed in) and the same
\* normalized training array whatever X_test is, and a pixel value maps to
\* the same normalized value wherever it occurs, in the training array or
\* in either evaluation array.
C9_TrainStatsOnly ==
    Len(normalized) = 2 =>
        LET r1 == normalized[1]
            r2 == normalized[2]
        IN  /\ r1.mean = r2.mean
            /\ r1.std = r2.std
            /\ r1.X_train = r2.X_train
            /\ r1.mean = Mean(X_train)
            /\ r1.std = Std(X_train)
            /\ \A c \in 1..2 : \A i \in DOMAIN X_train : \A j \in DOMAIN X_test[c] :
                  X_train[i] = X_test[c][j] =>
                      normalized[c].X_train[i] = normalized[c].X_test[j]
            /\ \A j \in DOMAIN X_test[1] : \A k \in DOMAIN X_test[2] :
                  X_test[1][j] = X_test[2][k] => r1.X_test[j] = r2.X_test[k]

\* Two calls on one training array of non-zero spread with different
\* evaluation arrays, the first of which shares a pixel value with it.
C9_Witness ==
    /\ Len(normalized) = 2
    /\ X_test[1] # X_test[2]
    /\ normalized[1].std # RInt(0)
    /\ \E i \in DOMAIN X_train : X_train[i] = X_test[1][1]
    /\ normalized[1].X_test # normalized[2].X_test

\* C10: over the whole pipeline the parameters change only in the
\* optimizer steps of the training loop; saving, reloading the saved file
\* and export leave them as the last step left them, and the exported
\* artifact carries the parameters of the 97,500th step.
C10_ParamsFrame ==
    /\ [][params' # params => (pc = "batch" /\ iterations' = iterations + 1)]_vars
    /\ [][(pc \in {"save_weights", "load_weights", "export"}) => (params' = params)]_vars
    /\ [](pc = "done" =>
            /\ coreml_model.written
            /\ coreml_model.params = params
            /\ weights_file.params = params
            /\ params.updates = 97500)

\* The artifact has been exported after saving and reloading.
C10_Witness ==
    /\ pc = "done"
    /\ weights_file.written
    /\ coreml_model.written
    /\ coreml_model.params.updates = 97500

\* C11: the generator of the training batches draws from the training
\* split only, and every batch of an optimizer step comes from it, drawn
\* from the normalized training array and augmented; what validation
\* evaluates is the normalized test array itself, never augmented, in every
\* epoch.
C11_DataRouting ==
    /\ (train_datagen # NoGenerator => train_datagen.fitted = x_train)
    /\ (flow # NoFlow =>
          /\ flow.data = x_train
          /\ flow.data.split = "train"
          /\ flow.augment = train_datagen)
    /\ (iterations > 0 =>
          /\ last_batch.drawn_from = x_train
          /\ last_batch.drawn_from.split = "train"
          /\ last_batch.drawn_from.normalized
          /\ last_batch.augmented)
    /\ (val_runs > 0 =>
          /\ val_data = x_test
          /\ val_data.split = "test"
          /\ val_data.normalized
          /\ ~val_data.augmented)
    /\ (InEpoch => val_runs = epoch)

\* The second epoch has taken a batch after the first validation.
C11_Witness ==
    /\ pc = "batch"
    /\ epoch = 1
    /\ batch = 1
    /\ val_runs = 1
    /\ last_batch.augmented
    /\ last_batch.drawn_from.split = "train"
    /\ val_data.split = "test"

\* C12: normalize never divides by zero: the divisor std + 1e-7 is
\* strictly positive for every non-empty training array; when all training
\* pixels are equal the std is 0, every normalized training pixel is
\* exactly 0 and an evaluation pixel x becomes (x - mean) / 1e-7, that is
\* (x - mean) * 10^7.
C12_DivisorPositive ==
    \A c \in 1..Len(normalized) :
        LET r == normalized[c]
            degenerate == \A i \in DOMAIN X_train : X_train[i] = X_train[1]
        IN  /\ Len(X_train) > 0
            /\ ~RLess(r.std, RInt(0))
            /\ RLess(RInt(0), RAdd(r.std, Eps))
            /\ RAdd(r.std, Eps)[1] # 0
            /\ degenerate =>
                  /\ r.std = RInt(0)
                  /\ r.mean = X_train[1]
                  /\ RAdd(r.std, Eps) = <<1, 10 ^ 7>>
                  /\ \A i \in DOMAIN X_train : r.X_train[i] = RInt(0)
                  /\ \A j \in DOMAIN X_test[c] :
                        r.X_test[j] =
                            RMul(RSub(X_test[c][j], r.mean), RInt(10 ^ 7))

\* normalize has run on two equal training pixels 0 and an evaluation
\* pixel 2, which became 2 * 10^7.
C12_Witness ==
    /\ Len(normalized) >= 1
    /\ Len(X_train) = 2
    /\ X_train[1] = RInt(0)
    /\ X_train[2] = RInt(0)
    /\ X_test[1][1] = RInt(2)
    /\ normalized[1].std = RInt(0)
    /\ normalized[1].X_train = <<RInt(0), RInt(0)>>
    /\ normalized[1].X_test[1] = RInt(2 * 10 ^ 7)

\* C13: run top to bottom, the name classes holds the integer 10 while the
\* layers are added, the final dense layer among them, and is rebound to
\* the list of label strings only by the export cell; the units of the
\* last layer (10) equal the number of class labels given to the converter
\* (10), and the list bound to classes is element for element the list
\* passed as class_labels.
C13_ClassesBinding ==
    /\ [](pc = "build" => (classes.type = "int" /\ classes.int = 10))
    /\ [][(Len(model') = 45 /\ Len(model) = 44) =>
             /\ classes.type = "int"
             /\ classes.int = 10
             /\ model'[45].kind = "dense"
             /\ model'[45].name = "predictions"
             /\ model'[45].units = 10
             /\ classes' = classes]_vars
    /\ [](classes.type = "list" => (pc = "done" /\ Len(model) = 45))
    /\ [][(classes.type = "int" /\ classes' # classes) =>
             (pc = "export" /\ classes'.type = "list")]_vars
    /\ [](pc = "done" =>
            /\ classes.type = "list"
            /\ coreml_model.layers[45].units = 10
            /\ Len(coreml_model.class_labels) = 10
            /\ coreml_model.layers[45].units = Len(coreml_model.class_labels)
            /\ Len(classes.list) = Len(coreml_model.class_labels)
            /\ \A i \in 1..10 : classes.list[i] = coreml_model.class_labels[i])

\* The export cell has run: classes is the list of ten labels and the
\* artifact carries the network of ten output units.
C13_Witness ==
    /\ pc = "done"
    /\ classes.type = "list"
    /\ Len(classes.list) = 10
    /\ classes.list[3] = "bird "
    /\ coreml_model.class_labels[10] = "truck"
    /\ coreml_model.layers[45].units = 10

====
